---- MODULE Spec2Model ----
(***************************************************************************)
(* Toast queue and per-toast lifecycle of sohni-ui                         *)
(* (src/src/components/toast.tsx).                                         *)
(*                                                                         *)
(* ToastProvider keeps the list `toasts`; every list entry is rendered by  *)
(* one Toast component whose hooks (useState / useRef) are the record      *)
(* comps[uid].  A JavaScript object is a function whose DOMAIN is the set  *)
(* of keys it has, so `{...a, ...b}` is  b @@ a  and a destructuring       *)
(* default is Get(props, key, default).                                    *)
(*                                                                         *)
(* Environment outside src/:                                               *)
(*  - React: a handler's setState calls are applied at the next commit.    *)
(*    The list is kept in `toasts` as setToasts leaves it; Commit runs the *)
(*    unmount cleanups and mount effects, and while a commit is pending    *)
(*    (Pending) no other action is enabled.                                *)
(*  - Animated: stopping a running animation (setValue, a new animation on *)
(*    the same value) ends it; react-native then calls its start callback  *)
(*    with finished = false.  The driver is not in src/, so the model lets *)
(*    the end of a stopped exit animation be reported or dropped.          *)
(*  - Promises: a then/catch continuation is a microtask, run before the    *)
(*    next timer, press or animation callback (Due).                       *)
(*  - Date.now() never decreases; Math.random() is any value.              *)
(***************************************************************************)
EXTENDS Integers, Sequences, FiniteSets, TLC

VARIABLES
    toasts,     \* ToastProvider: useState<ToastItem[]>
    comps,      \* comps[uid]: hooks of the Toast rendered for the uid-th showToast
    promises,   \* promises[p]: state of the promise object p
    returned,   \* returned[p]: state of the promise returned by promise(p, options)
    now,        \* last value of Date.now()
    calls,      \* promise() calls so far
    lastId      \* the id returned by the showToast of the last step, else NoId

vars == <<toasts, comps, promises, returned, now, calls, lastId>>

\* ------------------------------------------------------------------ bounds
MaxCreates == 4          \* showToast calls in one run of Spec and SpecPromise
MaxLifecycleCreates == 1 \* showToast calls in one run of SpecLifecycle
MaxPromiseCalls == 1     \* promise() calls in one run of SpecPromise
MaxClock == 1            \* largest value of Date.now()
MaxAutoHideCreates == 2  \* showToast calls in one run of SpecAutoHide
MaxCreatorCreates == 1   \* showToast calls in one run of SpecCreators
MaxLayoutCreates == 2    \* showToast calls in one run of SpecLayout

\* --------------------------------------------------------------- constants
MAX_TOASTS == 3
DefaultDuration == 3000
TOAST_SPACING == 5
SCREEN_HEIGHT == 800                    \* Dimensions.get('window').height of a device

\* ------------------------------------------------------------------ inputs
Ids == {"", "a", "b"}                   \* values generateId may return
NoId == "<undefined>"                   \* hideToast() called without an argument
PromiseIds == {"p1"}
Errors == {[message |-> "Network error"], [code |-> "E500"]}
Values == {"v"}

EmptyProps == [k \in {} |-> ""]

\* Partial<ToastProps> values passed to showToast
ShowToastInputs ==
    { [message |-> "Saved", type |-> "success"],
      [message |-> "Working", type |-> "loading", duration |-> 0],
      [message |-> ""],
      [message |-> "Up", promise |-> "p1", duration |-> 5000] }

\* options passed to promise(op, options)
PromiseOptions ==
    { EmptyProps,
      [duration |-> 0],
      [pendingMessage |-> "Wait", successMessage |-> "Done", errorMessage |-> "Failed"] }

\* message and options passed to success / error / info / warning / loading
CreatorMessages == {"Saved", ""}

CreatorOptions ==
    { EmptyProps,
      [duration |-> 1000],
      [type |-> "error"],
      [message |-> "Other", description |-> "more"],
      [onClose |-> [calls |-> "request's onClose"]],
      [promise |-> "p1"] }

\* the requests of SpecLayout: with and without description, top and bottom
LayoutInputs ==
    { [message |-> "Saved"],
      [message |-> "Saved", description |-> "more"],
      [message |-> "Saved", position |-> "bottom"],
      [message |-> "Saved", description |-> "more", position |-> "bottom"] }

\* the requests of SpecAutoHide: a message, no promise, a positive duration
AutoHideInputs ==
    { [message |-> "Saved", type |-> "success"],
      [message |-> "Saved", type |-> "success", duration |-> 1000] }

\* the requests of Spec and SpecPromise
QueueInputs == {[message |-> "Saved", type |-> "success"]}
QueueOptions == {EmptyProps}

\* ----------------------------------------------------------------- helpers
Get(obj, key, default) == IF key \in DOMAIN obj THEN obj[key] ELSE default

\* JavaScript truthiness of an optional string and of a number
Truthy(v) == v # NoId /\ v # ""
TruthyNumber(n) == n # 0

\* options?.key || default, on a string key and on a number key
OrElse(obj, key, default) ==
    IF key \in DOMAIN obj /\ Truthy(obj[key]) THEN obj[key] ELSE default

OrElseNumber(obj, key, default) ==
    IF key \in DOMAIN obj /\ TruthyNumber(obj[key]) THEN obj[key] ELSE default

Uids(ts) == {ts[i].uid : i \in 1..Len(ts)}

\* Array.prototype.sort((a, b) => a.createdAt - b.createdAt): stable
RECURSIVE InsertByCreatedAt(_, _)
InsertByCreatedAt(sorted, t) ==
    IF sorted = <<>> THEN <<t>>
    ELSE IF t.createdAt < Head(sorted).createdAt THEN <<t>> \o sorted
    ELSE <<Head(sorted)>> \o InsertByCreatedAt(Tail(sorted), t)

RECURSIVE SortByCreatedAt(_)
SortByCreatedAt(ts) ==
    IF ts = <<>> THEN <<>>
    ELSE InsertByCreatedAt(SortByCreatedAt(SubSeq(ts, 1, Len(ts) - 1)), ts[Len(ts)])

\* ------------------------------------------------------------ ToastProvider
\* AddToast evicting only above capacity (> instead of >=)
AddToast_offByOne(currentToasts, newToast) ==
    LET updatedToasts ==
            IF Len(currentToasts) > MAX_TOASTS
            THEN Tail(SortByCreatedAt(currentToasts))
            ELSE currentToasts
    IN  Append(updatedToasts, newToast)

\* AddToast evicting the last of the sorted list (pop instead of shift)
AddToast_dropsNewest(currentToasts, newToast) ==
    LET updatedToasts ==
            IF Len(currentToasts) >= MAX_TOASTS
            THEN SubSeq(SortByCreatedAt(currentToasts), 1, Len(currentToasts) - 1)
            ELSE currentToasts
    IN  Append(updatedToasts, newToast)

\* AddToast putting the new toast first ([newToast, ...updatedToasts])
AddToast_prepends(currentToasts, newToast) ==
    LET updatedToasts ==
            IF Len(currentToasts) >= MAX_TOASTS
            THEN Tail(SortByCreatedAt(currentToasts))
            ELSE currentToasts
    IN  <<newToast>> \o updatedToasts

\* the setToasts updater of showToast
AddToast(currentToasts, newToast) ==
    LET updatedToasts ==
            IF Len(currentToasts) >= MAX_TOASTS
            THEN Tail(SortByCreatedAt(currentToasts))
            ELSE currentToasts
    IN  Append(updatedToasts, newToast)

\* the setToasts call of hideToast
RemoveToast(currentToasts, id) ==
    IF Truthy(id)
    THEN SelectSeq(currentToasts, LAMBDA t : t.id # id)
    ELSE <<>>

\* <Toast {...toast} onClose={() => hideToast(toast.id)} />: the props of the
\* Toast element, the provider's onClose replacing the one of the request
ToastElement(toast) ==
    [onClose |-> [calls |-> "hideToast", id |-> toast.id]] @@ toast

\* calling an onClose: the provider's closure sets the list, a closure of the
\* caller does not
Call(onClose, currentToasts) ==
    IF onClose.calls = "hideToast" THEN RemoveToast(currentToasts, onClose.id)
    ELSE currentToasts

\* the object promise() hands to showToast
PromiseProps(op, options) ==
    options @@
    [ promise        |-> op,
      pendingMessage |-> OrElse(options, "pendingMessage", "Loading..."),
      successMessage |-> OrElse(options, "successMessage", "Success!"),
      errorMessage   |-> OrElse(options, "errorMessage", "Something went wrong"),
      position       |-> OrElse(options, "position", "bottom"),
      duration       |-> OrElseNumber(options, "duration", DefaultDuration),
      theme          |-> OrElse(options, "theme", "system") ]

\* p.finally(onFinally): settles as p does unless onFinally throws
Finally(p, onFinally) ==
    IF p.state \in {"fulfilled", "rejected"} /\ onFinally = "throws"
    THEN [state |-> "rejected", reason |-> [message |-> "thrown by onFinally"]]
    ELSE p

\* p.catch(() => {}): a rejection becomes a fulfilment with undefined
Returned_swallows(p) ==
    IF p.state = "rejected" THEN [state |-> "fulfilled", value |-> "undefined"] ELSE p

\* the promise that promise(op, options) returns: op.finally(() => {})
Returned(p) == Finally(p, "returns")

\* -------------------------------------------------------------------- Toast
\* destructured props with their defaults
Message(c)        == Get(c.props, "message", "")
Type(c)           == Get(c.props, "type", "info")
Duration(c)       == Get(c.props, "duration", DefaultDuration)
HasPromise(c)     == "promise" \in DOMAIN c.props
PendingMessage(c) == Get(c.props, "pendingMessage", "Loading...")
SuccessMessage(c) == Get(c.props, "successMessage", "Success!")
ErrorMessage(c)   == Get(c.props, "errorMessage", "Something went wrong")

\* hooks of a Toast after its first render
InitComp(item) ==
    [ props           |-> item,
      rendered        |-> FALSE,            \* mount effects have run
      isMounted       |-> TRUE,
      isVisible       |-> (Get(item, "message", "") # "" \/ "promise" \in DOMAIN item),
      internalMessage |-> Get(item, "message", ""),
      internalType    |-> Get(item, "type", "info"),
      timeoutRef      |-> 0,                \* 0 is null, else the handle last stored
      timers          |-> {},               \* live setTimeout timers: [h, ms]
      armed           |-> 0,                \* setTimeout calls so far (handles)
      entrances       |-> 0,                \* entrance animations started
      exitAnim        |-> FALSE,            \* exit animation running
      cont            |-> "none" ]          \* then/catch continuation: none, registered, ran

\* ClearTimeout leaving the timer live
ClearTimeout_none(c) == c

\* const TOAST_HEIGHT = description ? 90 : 60
TOAST_HEIGHT(description) == IF Truthy(description) THEN 90 ELSE 60

\* getPositionStyle: the distance from the top or the bottom edge.  The centred
\* top can be a half-integer and is given doubled, as top2.
getPositionStyle(position, toastIndex, totalToasts, description) ==
    LET offset == toastIndex * (TOAST_HEIGHT(description) + TOAST_SPACING)
    IN  CASE position = "top"    -> [top |-> 50 + offset]
          [] position = "bottom" -> [bottom |-> 50 + offset]
          [] position = "center" ->
                 [top2 |-> SCREEN_HEIGHT - 100 + 2 * offset
                           - (totalToasts - 1) * (TOAST_HEIGHT(description) + TOAST_SPACING)]
          [] OTHER               -> [top |-> 50 + offset]

\* if (timeoutRef.current) clearTimeout(timeoutRef.current)
ClearTimeout(c) ==
    [c EXCEPT !.timers = {t \in @ : t.h # c.timeoutRef}]

\* timeoutRef.current = setTimeout(hideToastCallback, ms)
SetTimeout(c, ms) ==
    [c EXCEPT !.armed = @ + 1,
              !.timers = @ \cup {[h |-> c.armed + 1, ms |-> ms]},
              !.timeoutRef = c.armed + 1]

\* the callback given to start() by hideToastCallback
ExitCallback(c) ==
    IF c.isMounted THEN [c EXCEPT !.isVisible = FALSE, !.exitAnim = FALSE]
    ELSE [c EXCEPT !.exitAnim = FALSE]

CallsOnClose(c) == c.isMounted /\ "onClose" \in DOMAIN c.props

\* a running exit animation is stopped by a new animation or setValue
StopExit(c, reported) ==
    IF c.exitAnim /\ reported THEN ExitCallback(c)
    ELSE [c EXCEPT !.exitAnim = FALSE]

StopExitCloses(c, reported) == c.exitAnim /\ reported /\ CallsOnClose(c)

\* showToastCallback arming the timer for any duration (>= instead of >)
showToastCallback_armsAtZero(c, autoHideDuration, reported) ==
    LET c1 == ClearTimeout(c)
        c2 == [c1 EXCEPT !.isVisible = TRUE]
        c3 == StopExit(c2, reported)
        c4 == [c3 EXCEPT !.entrances = @ + 1]
    IN  IF autoHideDuration >= 0 THEN SetTimeout(c4, autoHideDuration) ELSE c4

\* showToastCallback without the clearTimeout of the outstanding timer
showToastCallback_keepsTimer(c, autoHideDuration, reported) ==
    LET c2 == [c EXCEPT !.isVisible = TRUE]
        c3 == StopExit(c2, reported)
        c4 == [c3 EXCEPT !.entrances = @ + 1]
    IN  IF autoHideDuration > 0 THEN SetTimeout(c4, autoHideDuration) ELSE c4

showToastCallback(c, autoHideDuration, reported) ==
    LET c1 == ClearTimeout(c)
        c2 == [c1 EXCEPT !.isVisible = TRUE]
        c3 == StopExit(c2, reported)
        c4 == [c3 EXCEPT !.entrances = @ + 1]
    IN  IF autoHideDuration > 0 THEN SetTimeout(c4, autoHideDuration) ELSE c4

hideToastCallback(c, reported) ==
    LET c1 == IF c.timeoutRef # 0
              THEN [ClearTimeout(c) EXCEPT !.timeoutRef = 0]
              ELSE c
        c2 == StopExit(c1, reported)
    IN  [c2 EXCEPT !.exitAnim = TRUE]

\* MountEffect that never shows the toast
MountEffect_never(c) == c

\* useEffect(() => { if (message.length > 0) showToastCallback() }, [])
MountEffect(c) ==
    IF Message(c) # "" THEN showToastCallback(c, Duration(c), FALSE) ELSE c

\* PromiseEffect without setInternalMessage(pendingMessage)
PromiseEffect_keepsMessage(c) ==
    IF ~HasPromise(c) THEN c
    ELSE LET c1 == [c EXCEPT !.internalType = "loading"]
             c2 == showToastCallback(c1, 0, FALSE)
         IN  [c2 EXCEPT !.cont = "registered"]

\* useEffect(..., [promise]) up to the registration of then/catch
PromiseEffect(c) ==
    IF ~HasPromise(c) THEN c
    ELSE LET c1 == [c EXCEPT !.internalType = "loading",
                             !.internalMessage = PendingMessage(c)]
             c2 == showToastCallback(c1, 0, FALSE)
         IN  [c2 EXCEPT !.cont = "registered"]

\* useEffect(..., [message, type]): the provider never changes a toast's props, so
\* it runs at the first commit only, with internalMessage as first rendered
MessageEffect(c, internalMessage) ==
    IF Message(c) # "" /\ Message(c) # internalMessage
    THEN showToastCallback([c EXCEPT !.internalMessage = Message(c),
                                     !.internalType = Type(c)],
                           Duration(c), FALSE)
    ELSE c

\* the effects of the first commit, in the order the hooks are declared
MountEffects(c) ==
    [PromiseEffect(MessageEffect(MountEffect(c), c.internalMessage))
        EXCEPT !.rendered = TRUE]

\* UnmountCleanup without fadeAnim.stopAnimation()
UnmountCleanup_keepsAnimation(c) ==
    ClearTimeout([c EXCEPT !.isMounted = FALSE])

\* UnmountCleanup without clearTimeout(timeoutRef.current)
UnmountCleanup_keepsTimer(c) ==
    [c EXCEPT !.isMounted = FALSE, !.exitAnim = FALSE]

\* cleanup of useEffect(() => () => {...}, [])
UnmountCleanup(c) ==
    LET c1 == [c EXCEPT !.isMounted = FALSE]
        c2 == ClearTimeout(c1)
    IN  [c2 EXCEPT !.exitAnim = FALSE]

\* OnFulfilled showing the toast without an auto-hide duration
OnFulfilled_noRearm(c, reported) ==
    IF c.isMounted
    THEN showToastCallback([c EXCEPT !.internalType = "success",
                                     !.internalMessage = SuccessMessage(c)],
                           0, reported)
    ELSE c

\* OnFulfilled without the isMounted.current guard
OnFulfilled_unguarded(c, reported) ==
    showToastCallback([c EXCEPT !.internalType = "success",
                                !.internalMessage = SuccessMessage(c)],
                      Duration(c), reported)

\* .then((result) => {...})
OnFulfilled(c, reported) ==
    IF c.isMounted
    THEN showToastCallback([c EXCEPT !.internalType = "success",
                                     !.internalMessage = SuccessMessage(c)],
                           Duration(c), reported)
    ELSE c

\* OnRejected always showing the errorMessage template
OnRejected_templateOnly(c, error, reported) ==
    IF c.isMounted
    THEN showToastCallback(
             [c EXCEPT !.internalType = "error", !.internalMessage = ErrorMessage(c)],
             Duration(c), reported)
    ELSE c

\* .catch((error) => {...})
OnRejected(c, error, reported) ==
    IF c.isMounted
    THEN showToastCallback(
             [c EXCEPT !.internalType = "error",
                       !.internalMessage =
                           IF "message" \in DOMAIN error THEN error.message
                           ELSE ErrorMessage(c)],
             Duration(c), reported)
    ELSE c

\* An unmounted Toast with no timer, animation or continuation left is out of
\* the program's reach: at a commit its record is replaced by Gone.
Gone == [InitComp(EmptyProps) EXCEPT !.rendered = TRUE, !.isMounted = FALSE]

Collect(c) ==
    IF ~c.isMounted /\ c.timers = {} /\ ~c.exitAnim /\ c.cont # "registered"
    THEN Gone ELSE c

\* ------------------------------------------------------------------- state
Pending ==
    \E u \in DOMAIN comps :
        \/ ~comps[u].rendered
        \/ comps[u].isMounted /\ u \notin Uids(toasts)

Mounted(u) == u \in DOMAIN comps /\ comps[u].isMounted /\ comps[u].rendered

\* toasts.map((toast, index) => <Toast ... toastIndex={index}
\* totalToasts={toasts.length} />): the position style of the index-th Toast
\* (index from 1), position 'top' and no description by default
Position(toast) == Get(toast, "position", "top")
Description(toast) == Get(toast, "description", NoId)

PositionStyle(index) ==
    getPositionStyle(Position(toasts[index]), index - 1, Len(toasts),
                     Description(toasts[index]))

\* a registered then/catch continuation whose promise has settled is yet to run
Due ==
    \E u \in DOMAIN comps :
        /\ comps[u].cont = "registered"
        /\ promises[comps[u].props.promise].state # "pending"

Init ==
    /\ toasts = <<>>
    /\ comps = <<>>
    /\ promises = [p \in PromiseIds |-> [state |-> "unused"]]
    /\ returned = [p \in PromiseIds |-> [state |-> "uncalled"]]
    /\ now = 0
    /\ calls = 0
    /\ lastId = NoId

\* ----------------------------------------------------------------- actions
Outcomes ==
    {[state |-> "fulfilled", value |-> v] : v \in Values}
    \cup {[state |-> "rejected", reason |-> e] : e \in Errors}

\* showToast(props): id from generateId(), createdAt from Date.now().  A promise
\* handed to the provider for the first time is pending or already settled.
showToast(props) ==
    /\ ~Pending
    /\ \E id \in Ids, t \in {now, now + 1} \cap (0..MaxClock) :
        LET newToast == [uid |-> Len(comps) + 1, id |-> id, createdAt |-> t] @@ props
        IN  /\ toasts' = AddToast(toasts, newToast)
            /\ comps' = Append(comps, InitComp(ToastElement(newToast)))
            /\ now' = t
            /\ lastId' = id
    /\ IF "promise" \in DOMAIN props /\ promises[props.promise].state = "unused"
       THEN \E st \in {[state |-> "pending"]} \cup Outcomes :
                promises' = [promises EXCEPT ![props.promise] = st]
       ELSE UNCHANGED promises

ShowToast(inputs, limit) ==
    /\ Len(comps) < limit
    /\ \E props \in inputs : showToast(props)
    /\ UNCHANGED <<returned, calls>>

\* promise(op, options)
Promise(inputs, limit) ==
    /\ Len(comps) < limit
    /\ \E op \in PromiseIds, options \in inputs :
        /\ showToast(PromiseProps(op, options))
        /\ returned' = [returned EXCEPT ![op] = Returned(promises'[op])]
    /\ calls' = calls + 1

\* success(message, options) ... loading(message, options)
Success(message, options) ==
    showToast(options @@ [message |-> message, type |-> "success"])

Error(message, options) ==
    showToast(options @@ [message |-> message, type |-> "error"])

Info(message, options) ==
    showToast(options @@ [message |-> message, type |-> "info"])

Warning(message, options) ==
    showToast(options @@ [message |-> message, type |-> "warning"])

Loading(message, options) ==
    showToast(options @@ [message |-> message, type |-> "loading", duration |-> 0])

Creators(messages, inputs, limit) ==
    /\ Len(comps) < limit
    /\ \E message \in messages, options \in inputs :
           \/ Success(message, options)
           \/ Error(message, options)
           \/ Info(message, options)
           \/ Warning(message, options)
           \/ Loading(message, options)
    /\ UNCHANGED <<returned, calls>>

\* hideToast(id) and hideToast()
hideToast(id) ==
    /\ ~Pending
    /\ toasts' = RemoveToast(toasts, id)
    /\ lastId' = NoId
    /\ UNCHANGED <<comps, promises, returned, now, calls>>

HideToast == \E id \in Ids \cup {NoId} : hideToast(id)

\* React commit: unmount what left the list, run the effects of what entered it
Commit ==
    /\ Pending
    /\ comps' = [u \in DOMAIN comps |->
                    IF ~comps[u].rendered THEN MountEffects(comps[u])
                    ELSE IF comps[u].isMounted /\ u \notin Uids(toasts)
                         THEN Collect(UnmountCleanup(comps[u]))
                         ELSE Collect(comps[u])]
    /\ lastId' = NoId
    /\ UNCHANGED <<toasts, promises, returned, now, calls>>

\* the promise object settles
Settle(p) ==
    /\ ~Pending
    /\ promises[p].state = "pending"
    /\ \E outcome \in Outcomes :
        /\ promises' = [promises EXCEPT ![p] = outcome]
        /\ returned' = [returned EXCEPT ![p] =
                           IF @.state = "uncalled" THEN @ ELSE Returned(outcome)]
    /\ lastId' = NoId
    /\ UNCHANGED <<toasts, comps, now, calls>>

\* the then/catch continuation registered by the uid-th Toast runs
Continuation(u) ==
    /\ ~Pending
    /\ u \in DOMAIN comps
    /\ comps[u].cont = "registered"
    /\ promises[comps[u].props.promise].state # "pending"
    /\ \E reported \in BOOLEAN :
        LET c == comps[u]
            p == promises[c.props.promise]
            closes == c.isMounted /\ StopExitCloses(c, reported)
            c1 == IF p.state = "fulfilled" THEN OnFulfilled(c, reported)
                  ELSE OnRejected(c, p.reason, reported)
        IN  /\ (reported => c.isMounted /\ c.exitAnim)
            /\ comps' = [comps EXCEPT ![u] = [c1 EXCEPT !.cont = "ran"]]
            /\ toasts' = IF closes THEN Call(c.props.onClose, toasts) ELSE toasts
    /\ lastId' = NoId
    /\ UNCHANGED <<promises, returned, now, calls>>

\* a live auto-hide timer fires
TimerFires(u) ==
    /\ ~Pending /\ ~Due
    /\ u \in DOMAIN comps
    /\ \E t \in comps[u].timers, reported \in BOOLEAN :
        LET c == [comps[u] EXCEPT !.timers = @ \ {t}]
        IN  /\ (reported => c.exitAnim)
            /\ comps' = [comps EXCEPT ![u] = hideToastCallback(c, reported)]
            /\ toasts' = IF StopExitCloses(c, reported)
                         THEN Call(c.props.onClose, toasts) ELSE toasts
    /\ lastId' = NoId
    /\ UNCHANGED <<promises, returned, now, calls>>

\* the close button (rendered while isVisible, if closable) is pressed
ClosePress(u) ==
    /\ ~Pending /\ ~Due
    /\ Mounted(u)
    /\ comps[u].isVisible
    /\ Get(comps[u].props, "closable", TRUE)
    /\ \E reported \in BOOLEAN :
        LET c == comps[u]
        IN  /\ (reported => c.exitAnim)
            /\ comps' = [comps EXCEPT ![u] = hideToastCallback(c, reported)]
            /\ toasts' = IF StopExitCloses(c, reported)
                         THEN Call(c.props.onClose, toasts) ELSE toasts
    /\ lastId' = NoId
    /\ UNCHANGED <<promises, returned, now, calls>>

\* the exit animation runs to its end
ExitCompletes(u) ==
    /\ ~Pending /\ ~Due
    /\ u \in DOMAIN comps
    /\ comps[u].exitAnim
    /\ comps' = [comps EXCEPT ![u] = ExitCallback(comps[u])]
    /\ toasts' = IF CallsOnClose(comps[u])
                 THEN Call(comps[u].props.onClose, toasts) ELSE toasts
    /\ lastId' = NoId
    /\ UNCHANGED <<promises, returned, now, calls>>

PlainHandlers ==
    \/ HideToast
    \/ Commit
    \/ \E u \in DOMAIN comps : TimerFires(u)
    \/ \E u \in DOMAIN comps : ClosePress(u)
    \/ \E u \in DOMAIN comps : ExitCompletes(u)

PromiseHandlers ==
    \/ \E p \in PromiseIds : Settle(p)
    \/ \E u \in DOMAIN comps : Continuation(u)

\* the queue up to and beyond capacity, plain requests
Next ==
    \/ ShowToast(QueueInputs, MaxCreates)
    \/ PlainHandlers

Spec == Init /\ [][Next]_vars

\* the queue up to and beyond capacity, one of the requests made by promise()
NextPromise ==
    \/ ShowToast(QueueInputs, MaxCreates)
    \/ Promise(QueueOptions, MaxCreates) /\ calls < MaxPromiseCalls
    \/ PlainHandlers
    \/ PromiseHandlers

SpecPromise == Init /\ [][NextPromise]_vars

\* every kind of request, few toasts
NextLifecycle ==
    \/ ShowToast(ShowToastInputs, MaxLifecycleCreates)
    \/ Promise(PromiseOptions, MaxLifecycleCreates)
    \/ PlainHandlers
    \/ PromiseHandlers

SpecLifecycle == Init /\ [][NextLifecycle]_vars

\* requests left alone: only commits, timers and animations follow a showToast.
\* React commits what is pending, a live timer fires, an animation that is not
\* stopped runs to its end.
NextAutoHide ==
    \/ ShowToast(AutoHideInputs, MaxAutoHideCreates)
    \/ Commit
    \/ \E u \in DOMAIN comps : TimerFires(u)
    \/ \E u \in DOMAIN comps : ExitCompletes(u)

SpecAutoHide ==
    /\ Init /\ [][NextAutoHide]_vars
    /\ WF_vars(Commit)
    /\ \A u \in 1..MaxAutoHideCreates :
           WF_vars(TimerFires(u)) /\ WF_vars(ExitCompletes(u))

\* requests made through the convenience creators
NextCreators ==
    \/ Creators(CreatorMessages, CreatorOptions, MaxCreatorCreates)
    \/ PlainHandlers
    \/ PromiseHandlers

SpecCreators == Init /\ [][NextCreators]_vars

\* several toasts on screen, with and without description
NextLayout ==
    \/ ShowToast(LayoutInputs, MaxLayoutCreates)
    \/ PlainHandlers

SpecLayout == Init /\ [][NextLayout]_vars

\* ------------------------------------------------------------------ claims
Bound(c) == c.cont = "registered"
PromiseState(c) == promises[c.props.promise].state
IsPending(c) == Bound(c) /\ PromiseState(c) = "pending"

\* a showToast has just evicted uid u: u is out of the list and not yet unmounted,
\* the newest Toast has not run its effects
JustEvicted(u) ==
    /\ u \in DOMAIN comps
    /\ comps[u].rendered /\ comps[u].isMounted /\ u \notin Uids(toasts)
    /\ ~comps[Len(comps)].rendered
    /\ Len(toasts) = MAX_TOASTS

\* C1: whatever the calls and events, the active list never holds more than
\* MAX_TOASTS (3) toasts.
C1_AtMostThree == Len(toasts) <= MAX_TOASTS

C1_Witness == \E u \in DOMAIN comps : JustEvicted(u) /\ calls = 1

\* the index of the toast with the smallest createdAt, the earliest inserted
\* among equal createdAt
Oldest(ts) ==
    CHOOSE v \in 1..Len(ts) :
        \A o \in (1..Len(ts)) \ {v} :
            \/ ts[o].createdAt > ts[v].createdAt
            \/ ts[o].createdAt = ts[v].createdAt /\ ts[o].uid > ts[v].uid

\* C2: a showToast at capacity removes exactly the toast with the smallest
\* createdAt (the earliest inserted among equals), keeps the other two and adds
\* the new toast.
C2_EvictsOldest ==
    [][ (Len(comps') = Len(comps) + 1 /\ Len(toasts) = MAX_TOASTS) =>
            LET v == Oldest(toasts)
            IN  /\ Len(toasts') = MAX_TOASTS
                /\ toasts[v].uid \notin Uids(toasts')
                /\ \A i \in (1..Len(toasts)) \ {v} :
                       \E j \in 1..Len(toasts') : toasts'[j] = toasts[i]
                /\ toasts'[Len(toasts')].uid = Len(comps') ]_vars

C2_Witness ==
    \E u \in DOMAIN comps :
        /\ JustEvicted(u)
        /\ comps[u].props.createdAt = toasts[1].createdAt
        /\ u < toasts[1].uid

\* toasts without its i-th element
RemoveAt(ts, i) == SubSeq(ts, 1, i - 1) \o SubSeq(ts, i + 1, Len(ts))

\* C3: hideToast() empties the list; hideToast(id) removes exactly the one toast
\* with that id and keeps the others in order; hideToast(id) with an id no
\* active toast has leaves the list unchanged.
C3_HideToastExact ==
    [][ \A id \in Ids \cup {NoId} :
            hideToast(id) =>
                /\ id = NoId => toasts' = <<>>
                /\ (id # NoId /\ \E i \in 1..Len(toasts) : toasts[i].id = id) =>
                       \E i \in 1..Len(toasts) :
                           toasts[i].id = id /\ toasts' = RemoveAt(toasts, i)
                /\ (id # NoId /\ \A i \in 1..Len(toasts) : toasts[i].id # id) =>
                       toasts' = toasts ]_vars

\* C4: a toast with duration 0 never has a live auto-hide timer, and its exit
\* starts only by a press of its close button; also after its promise settled.
C4_NoAutoHideAtZero ==
    /\ [](\A u \in DOMAIN comps : Duration(comps[u]) = 0 => comps[u].timers = {})
    /\ [][ \A u \in DOMAIN comps :
               (Duration(comps[u]) = 0 /\ ~comps[u].exitAnim /\ comps'[u].exitAnim)
                   => ClosePress(u) ]_vars

C4_Witness ==
    \E u \in DOMAIN comps :
        /\ Duration(comps[u]) = 0 /\ comps[u].isMounted
        /\ comps[u].cont = "ran" /\ comps[u].internalType \in {"success", "error"}
        /\ comps[u].timers = {} /\ ~comps[u].exitAnim

\* C5: while the promise a toast is bound to is pending, the toast shows type
\* "loading" and the pending template.
C5_LoadingWhilePending ==
    \A u \in DOMAIN comps :
        IsPending(comps[u]) =>
            /\ comps[u].internalType = "loading"
            /\ comps[u].internalMessage = PendingMessage(comps[u])

C5_Witness ==
    \E u \in DOMAIN comps :
        /\ IsPending(comps[u]) /\ comps[u].isMounted
        /\ Message(comps[u]) = "Up"
        /\ comps[u].internalMessage = "Loading..."

\* C6: while the bound promise is pending no auto-hide timer is live (the one
\* armed by the initial show is cancelled) and the exit starts only by a press of
\* the close button.
C6_NoTimerWhilePending ==
    /\ [](\A u \in DOMAIN comps : IsPending(comps[u]) => comps[u].timers = {})
    /\ [][ \A u \in DOMAIN comps :
               (IsPending(comps[u]) /\ ~comps[u].exitAnim /\ comps'[u].exitAnim)
                   => ClosePress(u) ]_vars

C6_Witness ==
    \E u \in DOMAIN comps :
        /\ IsPending(comps[u]) /\ comps[u].isMounted
        /\ Message(comps[u]) = "Up" /\ Duration(comps[u]) = 5000
        /\ comps[u].armed = 1 /\ comps[u].timers = {}

\* the continuation of the mounted Toast u runs in this step
ContinuationRuns(u) ==
    comps[u].cont = "registered" /\ comps'[u].cont = "ran" /\ comps[u].isMounted

\* the one timer a rearm leaves: for the configured duration, none at 0
Rearmed(c) ==
    IF Duration(c) > 0 THEN {[h |-> c.armed + 1, ms |-> Duration(c)]} ELSE {}

\* C7: when the promise of a mounted toast fulfils, the toast shows "success"
\* with the success template and its timer is armed for the configured duration.
C7_FulfilShowsSuccess ==
    [][ \A u \in DOMAIN comps :
            (ContinuationRuns(u) /\ PromiseState(comps[u]) = "fulfilled") =>
                /\ comps'[u].internalType = "success"
                /\ comps'[u].internalMessage = SuccessMessage(comps[u])
                /\ comps'[u].timers = Rearmed(comps[u]) ]_vars

C7_Witness ==
    \E u \in DOMAIN comps :
        /\ comps[u].isMounted /\ comps[u].cont = "ran"
        /\ comps[u].internalType = "success" /\ comps[u].internalMessage = "Done"
        /\ \E t \in comps[u].timers : t.ms = DefaultDuration

\* C8: when the promise of a mounted toast rejects, the toast shows "error" with
\* the rejection's message if that is a string, else the error template, and its
\* timer is armed for the configured duration.
C8_RejectShowsError ==
    [][ \A u \in DOMAIN comps :
            (ContinuationRuns(u) /\ PromiseState(comps[u]) = "rejected") =>
                LET error == promises[comps[u].props.promise].reason
                IN  /\ comps'[u].internalType = "error"
                    /\ comps'[u].internalMessage =
                           IF "message" \in DOMAIN error THEN error.message
                           ELSE ErrorMessage(comps[u])
                    /\ comps'[u].timers = Rearmed(comps[u]) ]_vars

C8_Witness ==
    \E u \in DOMAIN comps :
        /\ comps[u].isMounted /\ comps[u].cont = "ran"
        /\ comps[u].internalType = "error"
        /\ comps[u].internalMessage = "Network error"
        /\ ErrorMessage(comps[u]) = "Failed"
        /\ \E t \in comps[u].timers : t.ms = DefaultDuration

\* C9: the promise returned by promise(op, options) settles as op does: same
\* value on fulfilment, same error on rejection, mounted toast or not.
C9_ReturnedSettlesAsOp ==
    \A p \in PromiseIds : returned[p].state # "uncalled" => returned[p] = promises[p]

C9_Witness ==
    \E p \in PromiseIds :
        /\ returned[p].state = "rejected" /\ returned[p].reason = promises[p].reason
        /\ toasts = <<>> /\ ~Pending

\* C10: the continuation of a toast that left the list while its promise was
\* pending changes nothing when the promise settles: no type, message, timer or
\* animation of the toast, and not the list.
C10_StaleSettleIgnored ==
    [][ \A u \in DOMAIN comps :
            (comps[u].cont = "registered" /\ ~comps[u].isMounted
             /\ comps'[u].cont # "registered") =>
                /\ toasts' = toasts
                /\ comps' = [comps EXCEPT ![u].cont = "ran"] ]_vars

C10_Witness ==
    \E u \in DOMAIN comps :
        /\ ~comps[u].isMounted /\ comps[u].cont = "ran"
        /\ comps[u].internalType = "loading" /\ comps[u].timers = {}
        /\ PromiseState(comps[u]) # "pending"
        /\ Len(toasts) = MAX_TOASTS /\ Len(comps) = MaxCreates

\* C11: a toast with a message, no promise and a positive duration (3000 by
\* default) has, once shown, one timer armed for that duration; left alone, its
\* timer fires, its exit starts and it leaves the list, which in the end is empty.
C11_AutoHides ==
    /\ [](\A u \in DOMAIN comps :
             (Mounted(u) /\ comps[u].isVisible /\ ~comps[u].exitAnim) =>
                 comps[u].timers = {[h |-> 1, ms |-> Duration(comps[u])]})
    /\ \A u \in 1..MaxAutoHideCreates :
           (u \in Uids(toasts)) ~> (u \notin Uids(toasts) /\ ~Mounted(u))
    /\ <>[](toasts = <<>>)

C11_Witness ==
    \E u \in DOMAIN comps :
        /\ Mounted(u) /\ ~comps[u].isVisible /\ comps[u].timers = {}
        /\ Message(comps[u]) = "Saved" /\ Duration(comps[u]) = DefaultDuration
        /\ comps[u].armed = 1 /\ toasts = <<>> /\ Len(comps) = 1

\* the Toast u has been rendered and its entry is no longer in the list
OutOfList(u) == comps[u].rendered /\ u \notin Uids(toasts)

\* the showToast of this step evicts uid u
Evicts(u) ==
    Len(comps') = Len(comps) + 1 /\ u \in Uids(toasts) /\ u \notin Uids(toasts')

\* C12: the showToast that evicts a toast takes it out of the list in that very
\* step and leaves its component as it was (no exit animation started); from
\* then on its exit is never started and no handler of it changes the list.
C12_EvictionImmediate ==
    [][ \A u \in DOMAIN comps :
            /\ Evicts(u) => comps'[u] = comps[u]
            /\ OutOfList(u) =>
                   /\ comps'[u].exitAnim => comps[u].exitAnim
                   /\ (TimerFires(u) \/ ClosePress(u) \/ ExitCompletes(u))
                          => toasts' = toasts ]_vars

C12_Witness ==
    \E u \in DOMAIN comps :
        /\ JustEvicted(u) /\ comps[u].isVisible
        /\ ~comps[u].exitAnim /\ comps[u].timers # {}

\* the toast the showToast of this step appended
Created == toasts'[Len(toasts')]

\* C13: each of success / error / info / warning / loading creates a toast with
\* the creator's own type and the given message, whatever the options; a toast
\* created by loading has duration 0 unless the options give a duration.
C13_CreatorSetsTypeAndMessage ==
    [][ \A message \in CreatorMessages, options \in CreatorOptions :
            /\ Success(message, options) =>
                   Created.type = "success" /\ Created.message = message
            /\ Error(message, options) =>
                   Created.type = "error" /\ Created.message = message
            /\ Info(message, options) =>
                   Created.type = "info" /\ Created.message = message
            /\ Warning(message, options) =>
                   Created.type = "warning" /\ Created.message = message
            /\ Loading(message, options) =>
                   /\ Created.type = "loading" /\ Created.message = message
                   /\ "duration" \notin DOMAIN options => Created.duration = 0 ]_vars

\* C14: the id showToast returns differs from the id of every toast made before
\* it; no two toasts in the list share an id.
C14_IdsUnique ==
    /\ [](\A i, j \in 1..Len(toasts) : i # j => toasts[i].id # toasts[j].id)
    /\ [][ Len(comps') = Len(comps) + 1 =>
               \A u \in DOMAIN comps :
                   "id" \in DOMAIN comps[u].props => comps[u].props.id # Created.id ]_vars

\* the list entry of uid u
Item(u) == toasts[CHOOSE i \in 1..Len(toasts) : toasts[i].uid = u]

\* C15: when the exit animation of a mounted toast completes, the onClose of the
\* toast's request, if it has one, is the callback invoked, and the toast leaves
\* the list.
C15_RequestOnCloseInvoked ==
    [][ \A u \in DOMAIN comps :
            (ExitCompletes(u) /\ comps[u].isMounted) =>
                /\ u \notin Uids(toasts')
                /\ "onClose" \in DOMAIN Item(u) =>
                       comps[u].props.onClose = Item(u).onClose ]_vars

\* the exit animation of uid u ends in this step
ExitEnds(u) == comps[u].exitAnim /\ ~comps'[u].exitAnim

\* C16: a toast leaves the list only when its exit animation has completed or
\* when a showToast evicts it; hideToast(id) starts the exit first.
C16_LeavesOnlyAfterExit ==
    [][ \A u \in DOMAIN comps :
            (u \in Uids(toasts) /\ u \notin Uids(toasts')) =>
                Evicts(u) \/ ExitEnds(u) ]_vars

\* C17: once the exit of a mounted toast has started, no step restarts its
\* entrance animation, arms a timer or shows it again, and when the exit ends the
\* toast is out of the list.
C17_ExitIsFinal ==
    [][ \A u \in DOMAIN comps :
            (Mounted(u) /\ comps[u].exitAnim) =>
                /\ comps'[u].entrances <= comps[u].entrances
                /\ comps'[u].timers = {}
                /\ ExitEnds(u) => u \notin Uids(toasts') ]_vars

\* C18: a toast never has more than one live auto-hide timer, and a step that
\* starts its exit leaves it none.
C18_OneTimer ==
    /\ [](\A u \in DOMAIN comps : Cardinality(comps[u].timers) <= 1)
    /\ [][ \A u \in DOMAIN comps :
               (~comps[u].exitAnim /\ comps'[u].exitAnim) => comps'[u].timers = {} ]_vars

C18_Witness ==
    \E u \in DOMAIN comps :
        /\ Mounted(u) /\ comps[u].cont = "ran" /\ comps[u].armed = 2
        /\ comps[u].timers = {[h |-> 2, ms |-> 5000]}

\* C19: the continuation of a settled promise changes type and message and
\* rearms the timer without starting the entrance animation again.
C19_NoEntranceReplay ==
    [][ \A u \in DOMAIN comps :
            ContinuationRuns(u) => comps'[u].entrances = comps[u].entrances ]_vars

\* C20: an unmounted toast has no live timer and no running animation, and
\* nothing changes it afterwards but the settling of its promise being noted;
\* none of its handlers changes the list.
C20_UnmountCancels ==
    /\ [](\A u \in DOMAIN comps :
             ~comps[u].isMounted => comps[u].timers = {} /\ ~comps[u].exitAnim)
    /\ [][ \A u \in DOMAIN comps :
               ~comps[u].isMounted =>
                   /\ comps'[u] \in {comps[u], [comps[u] EXCEPT !.cont = "ran"], Gone}
                   /\ (TimerFires(u) \/ ExitCompletes(u) \/ Continuation(u))
                          => toasts' = toasts ]_vars

C20_Witness ==
    \E u \in DOMAIN comps :
        /\ ~comps[u].isMounted /\ comps[u].cont = "registered"
        /\ comps[u].armed = 1 /\ comps[u].timers = {} /\ ~comps[u].exitAnim
        /\ ~Pending /\ toasts = <<>>

C22_LoadingShowsOwnMessage ==
    /\ [](\A u \in DOMAIN comps :
             (IsPending(comps[u]) /\ Type(comps[u]) = "loading") =>
                 /\ comps[u].internalType = "loading"
                 /\ comps[u].internalMessage = Message(comps[u]))
    /\ [][ \A u \in DOMAIN comps :
               (ContinuationRuns(u) /\ Type(comps[u]) = "loading"
                /\ PromiseState(comps[u]) = "rejected"
                /\ "message" \in DOMAIN promises[comps[u].props.promise].reason) =>
                   /\ comps'[u].internalType = "error"
                   /\ comps'[u].internalMessage =
                          promises[comps[u].props.promise].reason.message ]_vars

\* C23: a toast with an empty message, no promise and a positive duration is
\* shown and has, until its exit starts, its timer armed for that duration (so
\* that it leaves the list when the timer fires).
C23_EmptyMessageArmed ==
    \A u \in DOMAIN comps :
        (Mounted(u) /\ u \in Uids(toasts) /\ ~comps[u].exitAnim
         /\ Message(comps[u]) = "" /\ ~HasPromise(comps[u])
         /\ Duration(comps[u]) > 0) =>
            /\ comps[u].isVisible
            /\ comps[u].timers = {[h |-> 1, ms |-> Duration(comps[u])]}

\* C24: when all toasts of the list are at the top (or all at the bottom), each
\* toast is at least as far from that edge as the toast before it plus the
\* height of the toast before it: the toasts do not overlap.
C24_NoOverlap ==
    \A edge \in {"top", "bottom"} :
        (~Pending /\ \A i \in 1..Len(toasts) : Position(toasts[i]) = edge) =>
            \A i \in 1..(Len(toasts) - 1) :
                PositionStyle(i + 1)[edge] >=
                    PositionStyle(i)[edge] + TOAST_HEIGHT(Description(toasts[i]))

====
